---------------------------- MODULE Spec2Model ----------------------------
(***************************************************************************)
(* The server side of the randomness protocol of app/rand/srv.go:          *)
(* Server.serve drives one session over a connection, receiving I1..I4     *)
(* from the client and answering R1..R4.                                   *)
(*                                                                         *)
(* Byte strings ([]byte) are sequences; a nil or empty slice is << >>.     *)
(* Go slices are 0-based, sequences 1-based: slot i of the code is         *)
(* element i+1 of the sequence.                                            *)
(***************************************************************************)
EXTENDS Integers, Sequences, FiniteSets, TLC

(* ------------------------------ constants ------------------------------ *)

thresT == 2
thresR == 2
thresN == 3

\* len(s.srvpub): the size of the roster the servers were initialised with.
NSrv == 4

\* Seeds are one-byte strings with byte values 0..MaxSeed.
MaxSeed == 1

Servers == 0 .. (NSrv - 1)
Seeds == { <<b>> : b \in 0 .. MaxSeed }

(* -------------------------------- keys --------------------------------- *)

\* s.clipub, the client's long-term public key.
clipub == [role |-> "cli", idx |-> 0]

\* s.srvpub[i], the roster key of server i (srvsec of server i signs for it).
srvpub(i) == [role |-> "srv", idx |-> i]

\* The roster as the slice every server holds.
Roster == [i \in 1 .. NSrv |-> srvpub(i - 1)]

\* A key that is neither the client's nor in the roster.
advkey == [role |-> "adv", idx |-> 0]

(* --------------------------- external helpers -------------------------- *)

\* abstract.Sum(suite, b): a collision-free digest. It is a byte string too;
\* the leading -1, which is no byte value, keeps every digest apart from
\* every seed.
Sum(b) == << -1 >> \o b

\* sigEncode(suite, sec, rand, obj): obj serialised and signed by sec.
sigEncode(sec, obj) == [signer |-> sec, obj |-> obj]

\* sigDecode(suite, pub, msg, obj) returns nil exactly when msg verifies
\* under pub.
sigDecodeOK(pub, msg) == msg.signer = pub

\* pickInsurers(suite, srvpub, Rc, Rs): thresN distinct roster indices, a
\* deterministic function of the roster and the two seeds alone.
pickInsurers(roster, Rc, Rs) ==
    LET a == (Rc[1] * (MaxSeed + 1) + Rs[1]) % Len(roster)
    IN  [k \in 1 .. thresN |-> (a + (k - 1)) % Len(roster)]

\* deal.ConstructPromise(secPair, &s.keypair, thresT, thresR, selkeys)
\* followed by deal.MarshalBinary(): the serialised deal names the insurers
\* it was split among; every share of it is well formed.
ConstructPromise(dealer, selkeys) ==
    [dealer |-> dealer, ins |-> selkeys, t |-> thresT, r |-> thresR,
     corrupt |-> FALSE, bad |-> {}]

\* deal.UnmarshalInit(thresT, thresR, thresN, suite); deal.UnmarshalBinary(b)
\* returns nil exactly when b is the serialisation of a deal for thresN
\* insurers.
UnmarshalOK(dealb) == ~dealb.corrupt /\ Len(dealb.ins) = thresN

\* deal.ProduceResponse(k, &s.keypair) succeeds exactly when share k of the
\* deal was encrypted to this server's key and is well formed.
ProduceResponseOK(dealb, k, self) ==
    /\ dealb.ins[k + 1] = srvpub(self)
    /\ k \notin dealb.bad

\* The decrypted share and the response ProduceResponse returns for share k.
ShareOf(dealb, k) == [kind |-> "share", dealer |-> dealb.dealer, idx |-> k]
RespOf(dealb, k) == [kind |-> "resp", dealer |-> dealb.dealer, idx |-> k]


(* ------------------------------ messages ------------------------------- *)

\* The zero values of the message structs serve declares (var i1 I1, ...).
I1Zero == [HRc |-> << >>]
I2Zero == [Rc |-> << >>]
I3Zero == [R2s |-> << >>]
I4Zero == [R2s |-> << >>]

\* The message types in the order serve handles them.
Order == << "I1", "R1", "I2", "R2", "I3", "R3", "I4", "R4" >>

(* -------------------------------- state -------------------------------- *)

VARIABLES
    pc,       \* pc[s]: where serve of server s stands
    err,      \* err[s]: the error serve returned, "" while there is none
    i1,       \* i1[s], i2[s], i3[s], i4[s]: the decoded client messages
    i2,
    i3,
    i4,
    Rs,       \* Rs[s]: the server's trustee-selection randomness
    shares,   \* shares[s]: the []R4Share saved in round 3
    r3resps,  \* r3resps[s]: the []R3Resp collected in round 3
    inbox,    \* inbox[s]: what s.conn.Recv() of server s returns next
    connUp,   \* connUp[s]: FALSE once the transport of s.conn has failed
    log,      \* log[c]: the messages that crossed connection c, in order
    selfOf,   \* selfOf[s]: s.self of the Server value serve call s runs on
    conn,     \* conn[v]: the field s.conn of the Server value of index v
    rand,     \* rand[v]: the serve calls that drew from its s.rand, in order
    cpc,      \* the relaying client's position
    cRc       \* the relaying client's seed

vars == << pc, err, i1, i2, i3, i4, Rs, shares, r3resps, inbox, connUp, log,
           selfOf, conn, rand, cpc, cRc >>

srvvars == << pc, err, i1, i2, i3, i4, Rs, shares, r3resps, selfOf, conn, rand >>
clivars == << cpc, cRc >>

(* ------------------------- Server.recv / send -------------------------- *)

\* The zero value of the field s.conn, before any serve call has set it.
NoConn == -1

\* The values a read of s.conn by serve call s, which was handed connection
\* s, can return: the one it stored itself on entry, or the one another
\* serve call on the same Server value stored last. The reads and the
\* writes of the field are not synchronised.
Conn(s) == {s, conn[selfOf[s]]}

\* c.Recv() returns: with an error once the transport has failed, with the
\* next message once there is one; it blocks otherwise.
RecvReady(c) == ~connUp[c] \/ inbox[c] # << >>

\* The field a message must carry to decode into the struct serve passes to
\* recv where it stands.
ObjField(s) ==
    CASE pc[s] = "recvI1" -> "HRc"
      [] pc[s] = "recvI2" -> "Rc"
      [] OTHER -> "R2s"

\* Server.recv(obj), s.conn being c: "transport" when conn.Recv fails,
\* "auth" when the message does not verify under the client's key, "decode"
\* when it is not a message of the type of obj, "" otherwise.
recvErr(s, c) ==
    IF ~connUp[c] THEN "transport"
    ELSE IF ~sigDecodeOK(clipub, inbox[c][1]) THEN "auth"
    ELSE IF ObjField(s) \notin DOMAIN inbox[c][1].obj THEN "decode"
    ELSE ""

\* The object Server.recv decodes into obj.
recvObj(c) == inbox[c][1].obj

\* The effect of Server.recv on the connection: the message is consumed.
\* Each log entry names the serve call that received or sent it.
recvConn(s, c, typ) ==
    IF ~connUp[c]
    THEN UNCHANGED << inbox, log >>
    ELSE /\ inbox' = [inbox EXCEPT ![c] = << >>]
         /\ log' = [log EXCEPT ![c] =
                      Append(@, [dir |-> "recv", typ |-> typ, by |-> s,
                                 msg |-> inbox[c][1]])]

\* Server.send(obj), s.conn being c: the message signed with s.srvsec goes
\* out on c, unless conn.Send fails.
sendErr(c) == IF ~connUp[c] THEN "transport" ELSE ""

sendConn(s, c, typ, obj) ==
    IF ~connUp[c]
    THEN UNCHANGED log
    ELSE log' = [log EXCEPT ![c] =
                   Append(@, [dir |-> "send", typ |-> typ, by |-> s,
                              msg |-> sigEncode(srvpub(selfOf[s]), obj)])]

\* Mutant: an error sends the session back to its first receive.
Return_Retry(s, e) ==
    /\ pc' = [pc EXCEPT ![s] = IF e = "" THEN "done" ELSE "recvI1"]
    /\ err' = [err EXCEPT ![s] = e]

\* serve returns err: the session is over.
Return(s, e) ==
    /\ pc' = [pc EXCEPT ![s] = IF e = "" THEN "done" ELSE "error"]
    /\ err' = [err EXCEPT ![s] = e]

Goto(s, label) ==
    /\ pc' = [pc EXCEPT ![s] = label]
    /\ UNCHANGED err

(* ------------------------------ round 1 -------------------------------- *)

\* s.conn = conn: serve call s stores the connection it was handed in the
\* Server value.
Enter(s) ==
    /\ pc[s] = "serve"
    /\ conn' = [conn EXCEPT ![selfOf[s]] = s]
    /\ Goto(s, "recvI1")
    /\ UNCHANGED << i1, i2, i3, i4, Rs, shares, r3resps, inbox, connUp, log,
                    selfOf, rand, clivars >>

\* Receive client's I1.
RecvI1(s) ==
    /\ pc[s] = "recvI1"
    /\ \E c \in Conn(s) :
         /\ RecvReady(c)
         /\ recvConn(s, c, "I1")
         /\ IF recvErr(s, c) # ""
            THEN Return(s, recvErr(s, c)) /\ UNCHANGED i1
            ELSE Goto(s, "sendR1") /\ i1' = [i1 EXCEPT ![s] = recvObj(c)]
         /\ UNCHANGED << i2, i3, i4, Rs, shares, r3resps, connUp,
                         selfOf, conn, rand, clivars >>

\* Mutant: R1 carries the seed itself where its digest belongs.
MakeR1_Raw(rs) == [HRs |-> rs]

\* The R1 the server builds from its seed.
MakeR1(rs) == [HRs |-> Sum(rs)]

\* Choose the server's randomness and send R1.
SendR1(s) ==
    /\ pc[s] = "sendR1"
    /\ \E c \in Conn(s) :
         /\ \E rs \in Seeds :
              /\ Rs' = [Rs EXCEPT ![s] = rs]
              /\ sendConn(s, c, "R1", MakeR1(rs))
         /\ rand' = [rand EXCEPT ![selfOf[s]] = Append(@, s)]
         /\ IF sendErr(c) # "" THEN Return(s, sendErr(c)) ELSE Goto(s, "recvI2")
         /\ UNCHANGED << i1, i2, i3, i4, shares, r3resps, inbox, connUp, selfOf, conn,
                         clivars >>

(* ------------------------------ round 2 -------------------------------- *)

\* Mutant: the revealed seed is compared with its own digest, not with the
\* commitment of I1.
HashMatches_Self(Rc, HRc) == Sum(Rc) = Sum(Rc)

\* bytes.Equal(abstract.Sum(s.suite, Rc), i1.HRc)
HashMatches(Rc, HRc) == Sum(Rc) = HRc

\* Receive client's I2 and check it against the commitment of I1.
RecvI2(s) ==
    /\ pc[s] = "recvI2"
    /\ \E c \in Conn(s) :
         /\ RecvReady(c)
         /\ recvConn(s, c, "I2")
         /\ IF recvErr(s, c) # ""
            THEN Return(s, recvErr(s, c)) /\ UNCHANGED i2
            ELSE /\ i2' = [i2 EXCEPT ![s] = recvObj(c)]
                 /\ IF ~HashMatches(recvObj(c).Rc, i1[s].HRc)
                    THEN Return(s, "client random hash mismatch")
                    ELSE Goto(s, "sendR2")
         /\ UNCHANGED << i1, i3, i4, Rs, shares, r3resps, connUp,
                         selfOf, conn, rand, clivars >>

\* The keys of the insurers the server deals to.
SelKeys(roster, sel) == [j \in 1 .. Len(sel) |-> roster[sel[j] + 1]]

\* Mutant: the insurers of the server's own deal are selected with the two
\* seeds in each other's place.
MakeR2_SwappedSeeds(s, Rc, rs) ==
    [Rs |-> rs,
     Deal |-> ConstructPromise(s, SelKeys(Roster, pickInsurers(Roster, rs, Rc)))]

\* The R2 the server builds: its seed and its serialised deal.
MakeR2(s, Rc, rs) ==
    [Rs |-> rs,
     Deal |-> ConstructPromise(s, SelKeys(Roster, pickInsurers(Roster, Rc, rs)))]

\* Construct the deal and send R2.
SendR2(s) ==
    /\ pc[s] = "sendR2"
    /\ \E c \in Conn(s) :
         /\ sendConn(s, c, "R2", MakeR2(selfOf[s], i2[s].Rc, Rs[s]))
         /\ IF sendErr(c) # "" THEN Return(s, sendErr(c)) ELSE Goto(s, "recvI3")
         /\ UNCHANGED << i1, i2, i3, i4, Rs, shares, r3resps, inbox, connUp,
                         selfOf, conn, rand, clivars >>

(* ------------------------------ round 3 -------------------------------- *)

\* Mutant: the share index is compared with the server index, not the
\* insurer selected for it.
DealtToMe_Index(sel, k, self) == k = self

\* sel[k] != s.self is false: share k of the deal was dealt to this server.
DealtToMe(sel, k, self) == sel[k + 1] = self

\* What round 3 has produced so far: the error to return, if any, and the
\* two lists.
Acc0 == [err |-> "", shares |-> << >>, r3resps |-> << >>]

\* Mutant: the dealer index and the share index are stored in each other's
\* place.
Collect_SwappedIndex(acc, i, k, dealb) ==
    [acc EXCEPT
       !.r3resps = Append(@, [Dealer |-> k, Index |-> i, Resp |-> RespOf(dealb, k)]),
       !.shares = Append(@, [Dealer |-> k, Index |-> i, Share |-> ShareOf(dealb, k)])]

\* Mutant: the two values ProduceResponse returns are taken in the wrong
\* order, so the share goes where the response belongs.
Collect_SwappedReturn(acc, i, k, dealb) ==
    [acc EXCEPT
       !.r3resps = Append(@, [Dealer |-> i, Index |-> k, Resp |-> ShareOf(dealb, k)]),
       !.shares = Append(@, [Dealer |-> i, Index |-> k, Share |-> RespOf(dealb, k)])]

\* Mutant: a new response goes to the front of its list, the share to the
\* end of the other.
Collect_Prepend(acc, i, k, dealb) ==
    [acc EXCEPT
       !.r3resps = << [Dealer |-> i, Index |-> k, Resp |-> RespOf(dealb, k)] >> \o @,
       !.shares = Append(@, [Dealer |-> i, Index |-> k, Share |-> ShareOf(dealb, k)])]

\* One more response and the share saved with it.
Collect(acc, i, k, dealb) ==
    [acc EXCEPT
       !.r3resps = Append(@, [Dealer |-> i, Index |-> k, Resp |-> RespOf(dealb, k)]),
       !.shares = Append(@, [Dealer |-> i, Index |-> k, Share |-> ShareOf(dealb, k)])]

\* for k := range sel { ... }: respond to every share of dealer i's deal that
\* was dealt to this server; a failing ProduceResponse returns from serve.
RECURSIVE RespondLoop(_, _, _, _, _, _)
RespondLoop(self, i, dealb, sel, k, acc) ==
    IF k >= Len(sel) THEN acc
    ELSE IF ~DealtToMe(sel, k, self)
         THEN RespondLoop(self, i, dealb, sel, k + 1, acc)
    ELSE IF ~ProduceResponseOK(dealb, k, self)
         THEN [acc EXCEPT !.err = "produce response"]
    ELSE RespondLoop(self, i, dealb, sel, k + 1, Collect(acc, i, k, dealb))

\* Mutant: a deal that does not deserialise is skipped like an empty slot.
HandleR2_SkipMalformed(self, Rc, i, r2ib, acc) ==
    IF ~sigDecodeOK(srvpub(i), r2ib[1])
    THEN [acc EXCEPT !.err = "auth"]
    ELSE LET r2i == r2ib[1].obj
         IN  IF ~UnmarshalOK(r2i.Deal)
             THEN acc
             ELSE RespondLoop(self, i, r2i.Deal,
                              pickInsurers(Roster, Rc, r2i.Rs), 0, acc)

\* Mutant: the R2 in a slot is decoded without verifying its signature.
HandleR2_NoVerify(self, Rc, i, r2ib, acc) ==
    LET r2i == r2ib[1].obj
    IN  IF ~UnmarshalOK(r2i.Deal)
        THEN [acc EXCEPT !.err = "malformed deal"]
        ELSE RespondLoop(self, i, r2i.Deal,
                         pickInsurers(Roster, Rc, r2i.Rs), 0, acc)

\* Mutant: the insurers of a relayed deal are selected with the two seeds
\* in each other's place.
HandleR2_SwappedSeeds(self, Rc, i, r2ib, acc) ==
    IF ~sigDecodeOK(srvpub(i), r2ib[1])
    THEN [acc EXCEPT !.err = "auth"]
    ELSE LET r2i == r2ib[1].obj
         IN  IF ~UnmarshalOK(r2i.Deal)
             THEN [acc EXCEPT !.err = "malformed deal"]
             ELSE RespondLoop(self, i, r2i.Deal,
                              pickInsurers(Roster, r2i.Rs, Rc), 0, acc)

\* The body of the loop over the slots of I3 for one populated slot.
HandleR2(self, Rc, i, r2ib, acc) ==
    IF ~sigDecodeOK(srvpub(i), r2ib[1])
    THEN [acc EXCEPT !.err = "auth"]
    ELSE LET r2i == r2ib[1].obj
         IN  IF ~UnmarshalOK(r2i.Deal)
             THEN [acc EXCEPT !.err = "malformed deal"]
             ELSE RespondLoop(self, i, r2i.Deal,
                              pickInsurers(Roster, Rc, r2i.Rs), 0, acc)

\* Mutant: an empty slot of I3 is an error.
RECURSIVE DealLoop_Strict(_, _, _, _, _)
DealLoop_Strict(self, Rc, R2s, i, acc) ==
    IF i >= NSrv THEN acc
    ELSE IF Len(R2s[i + 1]) = 0
         THEN [acc EXCEPT !.err = "missing R2"]
    ELSE LET acc2 == HandleR2(self, Rc, i, R2s[i + 1], acc)
         IN  IF acc2.err # "" THEN acc2
             ELSE DealLoop_Strict(self, Rc, R2s, i + 1, acc2)

\* for i := 0; i < nsrv; i++ { ... }: an empty slot is skipped, the first
\* error returns from serve.
RECURSIVE DealLoop(_, _, _, _, _)
DealLoop(self, Rc, R2s, i, acc) ==
    IF i >= NSrv THEN acc
    ELSE IF Len(R2s[i + 1]) = 0
         THEN DealLoop(self, Rc, R2s, i + 1, acc)
    ELSE LET acc2 == HandleR2(self, Rc, i, R2s[i + 1], acc)
         IN  IF acc2.err # "" THEN acc2
             ELSE DealLoop(self, Rc, R2s, i + 1, acc2)

\* Mutant: only an I3 array that is too short is refused.
Round3_LenAtLeast(self, Rc, R2s) ==
    IF Len(R2s) < NSrv
    THEN [Acc0 EXCEPT !.err = "wrong-length R2 array in I3 message"]
    ELSE DealLoop(self, Rc, R2s, 0, Acc0)

\* Everything serve does with a decoded I3 before it sends R3.
Round3(self, Rc, R2s) ==
    IF Len(R2s) # NSrv
    THEN [Acc0 EXCEPT !.err = "wrong-length R2 array in I3 message"]
    ELSE DealLoop(self, Rc, R2s, 0, Acc0)

\* Mutant: the shares collected in round 3 are stored for every session.
RecvI3_Global(s) ==
    /\ pc[s] = "recvI3"
    /\ \E c \in Conn(s) :
         /\ RecvReady(c)
         /\ recvConn(s, c, "I3")
         /\ IF recvErr(s, c) # ""
            THEN Return(s, recvErr(s, c)) /\ UNCHANGED << i3, shares, r3resps >>
            ELSE LET acc == Round3(selfOf[s], i2[s].Rc, recvObj(c).R2s)
                 IN  /\ i3' = [i3 EXCEPT ![s] = recvObj(c)]
                     /\ shares' = [u \in Servers |-> acc.shares]
                     /\ r3resps' = [r3resps EXCEPT ![s] = acc.r3resps]
                     /\ IF acc.err # "" THEN Return(s, acc.err) ELSE Goto(s, "sendR3")
         /\ UNCHANGED << i1, i2, i4, Rs, connUp,
                         selfOf, conn, rand, clivars >>

\* Receive client's I3, decrypt and validate the shares dealt to us.
RecvI3(s) ==
    /\ pc[s] = "recvI3"
    /\ \E c \in Conn(s) :
         /\ RecvReady(c)
         /\ recvConn(s, c, "I3")
         /\ IF recvErr(s, c) # ""
            THEN Return(s, recvErr(s, c)) /\ UNCHANGED << i3, shares, r3resps >>
            ELSE LET acc == Round3(selfOf[s], i2[s].Rc, recvObj(c).R2s)
                 IN  /\ i3' = [i3 EXCEPT ![s] = recvObj(c)]
                     /\ shares' = [shares EXCEPT ![s] = acc.shares]
                     /\ r3resps' = [r3resps EXCEPT ![s] = acc.r3resps]
                     /\ IF acc.err # "" THEN Return(s, acc.err) ELSE Goto(s, "sendR3")
         /\ UNCHANGED << i1, i2, i4, Rs, connUp,
                         selfOf, conn, rand, clivars >>

\* r3 := R3{Resp: r3resps}
MakeR3(resps) == [Resp |-> resps]

\* Mutant: after R3 the server goes straight on to R4, without waiting for
\* the client's I4.
SendR3_NoWait(s) ==
    /\ pc[s] = "sendR3"
    /\ \E c \in Conn(s) :
         /\ sendConn(s, c, "R3", MakeR3(r3resps[s]))
         /\ IF sendErr(c) # "" THEN Return(s, sendErr(c)) ELSE Goto(s, "sendR4")
         /\ UNCHANGED << i1, i2, i3, i4, Rs, shares, r3resps, inbox, connUp,
                         selfOf, conn, rand, clivars >>

\* Send our R3.
SendR3(s) ==
    /\ pc[s] = "sendR3"
    /\ \E c \in Conn(s) :
         /\ sendConn(s, c, "R3", MakeR3(r3resps[s]))
         /\ IF sendErr(c) # "" THEN Return(s, sendErr(c)) ELSE Goto(s, "recvI4")
         /\ UNCHANGED << i1, i2, i3, i4, Rs, shares, r3resps, inbox, connUp,
                         selfOf, conn, rand, clivars >>

(* ------------------------------ round 4 -------------------------------- *)

\* Mutant: a slot is compared only where I3 had a payload.
SubsetOK_SkipEmpty(R2s4, R2s3) ==
    \A i \in 0 .. (NSrv - 1) :
        ~(Len(R2s4[i + 1]) # 0 /\ Len(R2s3[i + 1]) # 0 /\ R2s4[i + 1] # R2s3[i + 1])

\* Mutant: a populated slot of I4 passes when the slot of I3 was populated,
\* whatever the two hold.
SubsetOK_Populated(R2s4, R2s3) ==
    \A i \in 0 .. (NSrv - 1) :
        ~(Len(R2s4[i + 1]) # 0 /\ Len(R2s3[i + 1]) = 0)

\* len(r2ib) != 0 && !bytes.Equal(r2ib, i3.R2s[i]) holds for no slot.
SubsetOK(R2s4, R2s3) ==
    \A i \in 0 .. (NSrv - 1) :
        ~(Len(R2s4[i + 1]) # 0 /\ R2s4[i + 1] # R2s3[i + 1])

\* The validation of I4: its error, "" when it passes.
Round4(R2s4, R2s3) ==
    IF Len(R2s4) # NSrv THEN "wrong-length R2 array in I4 message"
    ELSE IF ~SubsetOK(R2s4, R2s3) THEN "R2 set in I4 not a subset of I3"
    ELSE ""

\* Receive client's I4 and validate it against I3.
RecvI4(s) ==
    /\ pc[s] = "recvI4"
    /\ \E c \in Conn(s) :
         /\ RecvReady(c)
         /\ recvConn(s, c, "I4")
         /\ IF recvErr(s, c) # ""
            THEN Return(s, recvErr(s, c)) /\ UNCHANGED i4
            ELSE /\ i4' = [i4 EXCEPT ![s] = recvObj(c)]
                 /\ IF Round4(recvObj(c).R2s, i3[s].R2s) # ""
                    THEN Return(s, Round4(recvObj(c).R2s, i3[s].R2s))
                    ELSE Goto(s, "sendR4")
         /\ UNCHANGED << i1, i2, i3, Rs, shares, r3resps, connUp,
                         selfOf, conn, rand, clivars >>

\* Mutant: only the shares of the dealers still present in I4 are revealed.
MakeR4_Filtered(R2s4, shrs) ==
    LET Kept(e) == Len(R2s4[e.Dealer + 1]) # 0
    IN  [Shares |-> SelectSeq(shrs, Kept)]

\* r4 := R4{Shares: shares}
MakeR4(R2s4, shrs) == [Shares |-> shrs]

\* Send our R4 and return.
SendR4(s) ==
    /\ pc[s] = "sendR4"
    /\ \E c \in Conn(s) :
         /\ sendConn(s, c, "R4", MakeR4(i4[s].R2s, shares[s]))
         /\ Return(s, sendErr(c))
         /\ UNCHANGED << i1, i2, i3, i4, Rs, shares, r3resps, inbox, connUp,
                         selfOf, conn, rand, clivars >>

\* One step of Server.serve of server s.
Serve(s) ==
    \/ Enter(s)
    \/ RecvI1(s)
    \/ SendR1(s)
    \/ RecvI2(s)
    \/ SendR2(s)
    \/ RecvI3(s)
    \/ SendR3(s)
    \/ RecvI4(s)
    \/ SendR4(s)

(* --------------------- the environment: any client --------------------- *)

\* The least and the greatest seed, used where representative values are
\* enough.
Seed0 == << 0 >>
SeedMax == << MaxSeed >>

\* A client that does not follow the protocol may send, in place of each
\* I-message, any message of these sets.
AdvI1 ==
    { sigEncode(clipub, [HRc |-> Sum(rc)]) : rc \in Seeds }
      \cup { sigEncode(advkey, [HRc |-> Sum(Seed0)]) }

AdvI2 ==
    { sigEncode(clipub, [Rc |-> rc]) : rc \in Seeds }
      \cup { sigEncode(advkey, [Rc |-> Seed0]) }

\* The R2 server i sends when it follows the protocol with seeds Rc and rs.
GoodR2(i, Rc, rs) == sigEncode(srvpub(i), MakeR2(i, Rc, rs))

\* What slot i of an I3 array may hold: nothing; a well-formed R2 of server i
\* (for the least or the greatest seed);
\* an R2 signed by another server; an R2 whose deal does not deserialise; an
\* R2 whose deal carries an invalid share at index 0.
SlotPool(i, Rc) ==
    { << >> }
      \cup { << GoodR2(i, Rc, rs) >> : rs \in {Seed0, SeedMax} }
      \cup { << sigEncode(srvpub((i + 1) % NSrv), MakeR2(i, Rc, Seed0)) >> }
      \cup { << sigEncode(srvpub(i),
                  [Rs |-> Seed0,
                   Deal |-> [MakeR2(i, Rc, Seed0).Deal EXCEPT !.corrupt = TRUE]]) >> }
      \cup { << sigEncode(srvpub(i),
                  [Rs |-> Seed0,
                   Deal |-> [MakeR2(i, Rc, Seed0).Deal EXCEPT !.bad = {0}]]) >> }

\* The arrays whose slot i is drawn from SlotPool(i), for the first n slots.
RECURSIVE R2Arrays(_, _)
R2Arrays(n, Rc) ==
    IF n = 0 THEN { << >> }
    ELSE { Append(a, x) : a \in R2Arrays(n - 1, Rc), x \in SlotPool(n - 1, Rc) }

AdvI3(Rc) ==
    { sigEncode(clipub, [R2s |-> a]) : a \in R2Arrays(NSrv, Rc) }
      \cup { sigEncode(clipub, [R2s |-> [j \in 1 .. n |-> << GoodR2(j - 1, Rc, Seed0) >>]]) :
                 n \in {NSrv - 1, NSrv + 1} }
      \cup { sigEncode(advkey, [R2s |-> [j \in 1 .. NSrv |-> << >>]]) }

\* The array a with the slots of S emptied.
Mask(a, S) == [j \in 1 .. Len(a) |-> IF (j - 1) \in S THEN << >> ELSE a[j]]

\* The array a with slot i replaced by a different payload.
Tamper(a, i, Rc) ==
    [a EXCEPT ![i + 1] =
       IF @ = << GoodR2(i, Rc, Seed0) >>
       THEN << sigEncode(srvpub(i),
                 [Rs |-> Seed0,
                  Deal |-> [MakeR2(i, Rc, Seed0).Deal EXCEPT !.corrupt = TRUE]]) >>
       ELSE << GoodR2(i, Rc, Seed0) >>]

\* In place of I4: the I3 array with any set of slots emptied, or with one
\* slot replaced, or cut short, or not signed by the client.
AdvI4(a, Rc) ==
    { sigEncode(clipub, [R2s |-> Mask(a, S)]) : S \in SUBSET Servers }
      \cup { sigEncode(clipub, [R2s |-> Tamper(a, i, Rc)]) : i \in Servers }
      \cup { sigEncode(clipub, [R2s |-> SubSeq(a, 1, NSrv - 1)]) }
      \cup { sigEncode(advkey, [R2s |-> a]) }

\* The messages such a client may send to server s where serve stands.
AdvPool(s) ==
    CASE pc[s] = "recvI1" -> AdvI1
      [] pc[s] = "recvI2" -> AdvI2
      [] pc[s] = "recvI3" -> AdvI3(i2[s].Rc)
      [] pc[s] = "recvI4" -> AdvI4(i3[s].R2s, i2[s].Rc)
      [] OTHER -> {}

\* The client hands server s its next message.
AdvSend(s) ==
    /\ cpc = "adv"
    /\ connUp[s]
    /\ inbox[s] = << >>
    /\ \E m \in AdvPool(s) : inbox' = [inbox EXCEPT ![s] = << m >>]
    /\ UNCHANGED << srvvars, connUp, log, clivars >>

\* The transport of the connection of server s fails.
ConnBreak(s) ==
    /\ cpc = "adv"
    /\ connUp[s]
    /\ inbox[s] = << >>
    /\ pc[s] \notin {"idle", "done", "error"}
    /\ connUp' = [connUp EXCEPT ![s] = FALSE]
    /\ UNCHANGED << srvvars, inbox, log, clivars >>

(* ------------------ the environment: a faithful client ------------------ *)

\* Message number n that crossed the connection of server s.
Msg(s, n) == log[s][n].msg

\* Every server has sent its n-th reply and waits for the next message.
AllSent(n) == \A s \in Servers : Len(log[s]) = 2 * n /\ inbox[s] = << >>

Broadcast(obj) == inbox' = [s \in Servers |-> << sigEncode(clipub, obj) >>]

\* The client picks its seed and sends its commitment to every server.
CliI1 ==
    /\ cpc = "I1"
    /\ \E rc \in Seeds :
         /\ cRc' = rc
         /\ Broadcast([HRc |-> Sum(rc)])
    /\ cpc' = "I2"
    /\ UNCHANGED << srvvars, connUp, log >>

\* Having every R1, the client reveals its seed.
CliI2 ==
    /\ cpc = "I2"
    /\ AllSent(1)
    /\ Broadcast([Rc |-> cRc])
    /\ cpc' = "I3"
    /\ UNCHANGED << srvvars, connUp, log, cRc >>

\* Having every R2, the client relays them all, slot i holding the R2 of
\* server i as received.
CliI3 ==
    /\ cpc = "I3"
    /\ AllSent(2)
    /\ Broadcast([R2s |-> [j \in 1 .. NSrv |-> << Msg(j - 1, 4) >>]])
    /\ cpc' = "I4"
    /\ UNCHANGED << srvvars, connUp, log, cRc >>

\* Having every R3, the client accepts every deal and sends the same array.
CliI4 ==
    /\ cpc = "I4"
    /\ AllSent(3)
    /\ Broadcast([R2s |-> [j \in 1 .. NSrv |-> << Msg(j - 1, 4) >>]])
    /\ cpc' = "R4"
    /\ UNCHANGED << srvvars, connUp, log, cRc >>

(* ---------------------------- specifications --------------------------- *)

InitSession ==
    /\ err = [s \in Servers |-> ""]
    /\ i1 = [s \in Servers |-> I1Zero]
    /\ i2 = [s \in Servers |-> I2Zero]
    /\ i3 = [s \in Servers |-> I3Zero]
    /\ i4 = [s \in Servers |-> I4Zero]
    /\ Rs = [s \in Servers |-> << >>]
    /\ shares = [s \in Servers |-> << >>]
    /\ r3resps = [s \in Servers |-> << >>]
    /\ inbox = [s \in Servers |-> << >>]
    /\ connUp = [s \in Servers |-> TRUE]
    /\ log = [s \in Servers |-> << >>]
    /\ conn = [v \in Servers |-> NoConn]
    /\ rand = [v \in Servers |-> << >>]
    /\ cRc = << >>

\* One server of the roster serves a connection whose other end may send
\* anything.
Init ==
    /\ InitSession
    /\ cpc = "adv"
    /\ selfOf = [s \in Servers |-> s]
    /\ \E v \in Servers :
         pc = [s \in Servers |-> IF s = v THEN "serve" ELSE "idle"]

Next ==
    \E s \in Servers :
        \/ Serve(s)
        \/ AdvSend(s)
        \/ ConnBreak(s)

Spec == Init /\ [][Next]_vars

\* Every server of the roster serves a connection to one client, which
\* follows the protocol, over transports that do not fail.
HonestInit ==
    /\ InitSession
    /\ cpc = "I1"
    /\ selfOf = [s \in Servers |-> s]
    /\ pc = [s \in Servers |-> "serve"]

HonestNext ==
    \/ \E s \in Servers : Serve(s)
    \/ CliI1
    \/ CliI2
    \/ CliI3
    \/ CliI4

\* The serve calls and the client run in goroutines and processes of their
\* own: while one of them can take a step, a step is eventually taken.
HonestSpec ==
    /\ HonestInit
    /\ [][HonestNext]_vars
    /\ WF_vars(HonestNext)

(* ------------------------- reading the log ----------------------------- *)

\* The direction of message number j of a session: odd ones come in.
DirAt(j) == IF j % 2 = 1 THEN "recv" ELSE "send"

\* The types of the messages server s has sent so far.
SentTypes(s) == { log[s][j].typ : j \in { n \in 1 .. Len(log[s]) : log[s][n].dir = "send" } }

\* Server s has received (sent) message number n of its session.
Has(s, n) == Len(log[s]) >= n

\* The client message number n verified under the client's key.
Verified(s, n) == Has(s, n) /\ Msg(s, n).signer = clipub

Aborted(s) == pc[s] = "error" /\ err[s] # ""

(* -------------------------------- C1 ----------------------------------- *)

\* C1: the messages that cross a session's connection are, in order, a
\* prefix of I1, R1, I2, R2, I3, R3, I4, R4, the I's received and the R's
\* sent: no reply goes out before its request came in, no two replies go
\* out in a row, and an aborted session has sent a prefix of R1..R4.
C1_StrictAlternation ==
    \A s \in Servers :
        /\ Len(log[s]) <= Len(Order)
        /\ \A j \in 1 .. Len(log[s]) :
               /\ log[s][j].typ = Order[j]
               /\ log[s][j].dir = DirAt(j)

\* A session that ran to its end, all eight messages exchanged.
C1_Witness ==
    \E s \in Servers : pc[s] = "done" /\ Len(log[s]) = Len(Order)

(* -------------------------------- C2 ----------------------------------- *)

\* The seed of the I2 server s received does not hash to the commitment of
\* the I1 it received.
CommitmentBroken(s) ==
    /\ Has(s, 3)
    /\ Sum(Msg(s, 3).obj.Rc) # Msg(s, 1).obj.HRc

\* C2: when the seed of I2 does not hash to the HRc of I1, the session has
\* ended with an error and the server has sent nothing but R1: no R2 (so
\* neither its seed nor its deal), no R3, no R4.
C2_CommitmentBinding ==
    \A s \in Servers :
        CommitmentBroken(s) =>
            /\ Aborted(s)
            /\ SentTypes(s) = {"R1"}

\* A session aborted for the mismatch itself.
C2_Witness ==
    \E s \in Servers :
        /\ CommitmentBroken(s)
        /\ Verified(s, 3)
        /\ err[s] = "client random hash mismatch"

(* -------------------------------- C3 ----------------------------------- *)

\* The R2 arrays of the I3 and the I4 server s received.
LogI3(s) == Msg(s, 5).obj.R2s
LogI4(s) == Msg(s, 7).obj.R2s

\* Some populated slot of the I4 array is not byte-identical to the same
\* slot of the I3 array.
I4Differs(s) ==
    \E j \in 1 .. Len(LogI4(s)) :
        /\ Len(LogI4(s)[j]) # 0
        /\ (j > Len(LogI3(s)) \/ LogI4(s)[j] # LogI3(s)[j])

\* C3: when a populated slot of I4 differs from the same slot of I3 (an
\* empty I3 slot included) the session has ended with an error and no R4 was
\* sent; when every populated slot of a verified, full-length I4 equals its
\* I3 slot, the subset check passes and the server goes on to send R4.
C3_SubsetEnforcement ==
    \A s \in Servers :
        Has(s, 7) =>
            /\ I4Differs(s) => (Aborted(s) /\ "R4" \notin SentTypes(s))
            /\ (~I4Differs(s) /\ Verified(s, 7) /\ Len(LogI4(s)) = NSrv) =>
                   \/ pc[s] \in {"sendR4", "done"}
                   \/ (Aborted(s) /\ err[s] = "transport" /\ ~connUp[s])

\* The subset check rejected an I4 that fills a slot I3 had left empty.
C3_Witness ==
    \E s \in Servers :
        /\ Has(s, 7)
        /\ err[s] = "R2 set in I4 not a subset of I3"
        /\ \E j \in 1 .. NSrv : Len(LogI3(s)[j]) = 0 /\ Len(LogI4(s)[j]) # 0

(* -------------------------------- C4 ----------------------------------- *)

\* Every session has ended in Done: R4 sent, serve returned nil.
AllDone ==
    \A s \in Servers : pc[s] = "done" /\ err[s] = "" /\ "R4" \in SentTypes(s)

\* The share list of the R4 server s sent.
R4Shares(s) == Msg(s, 8).obj.Shares

\* Some dealer's insurer set, selected from the client's seed and the seed
\* that dealer revealed in its R2, contains server s.
Selected(s) ==
    \E i \in Servers : \E k \in 1 .. thresN :
        pickInsurers(Roster, cRc, Msg(i, 4).obj.Rs)[k] = s

\* C4 as stated: with a faithful client and faithful servers every session
\* eventually reaches Done, and every R4 carries at least one share.
C4_Original ==
    /\ <>AllDone
    /\ [](\A s \in Servers : pc[s] = "done" => Len(R4Shares(s)) > 0)

\* C4, amended: with a faithful client and faithful servers every session
\* eventually reaches Done, and the R4 of a server carries at least one
\* share exactly when some dealer's insurer set contains that server.
C4_DoneAndSharesIffSelected ==
    /\ <>AllDone
    /\ [](\A s \in Servers :
            pc[s] = "done" => (Len(R4Shares(s)) > 0 <=> Selected(s)))

\* All sessions are done, one server was selected by a dealer and holds
\* shares, another was selected by none.
C4_Witness ==
    /\ cpc = "R4"
    /\ AllDone
    /\ \E s \in Servers : Selected(s) /\ Len(R4Shares(s)) > 0
    /\ \E s \in Servers : ~Selected(s)

(* -------------------------------- C5 ----------------------------------- *)

\* The response list of the R3 server s sent.
R3Resp(s) == Msg(s, 6).obj.Resp

\* The (dealer, index) pairs a list of R3Resp or R4Share entries names.
Pairs(list) == { << list[j].Dealer, list[j].Index >> : j \in 1 .. Len(list) }

\* The pairs (i, k) such that slot i of the I3 server s received is populated
\* and insurer k selected from the client's seed and the seed of that R2 is s.
DealtPairs(s) ==
    { p \in Servers \X (0 .. (thresN - 1)) :
        /\ Len(LogI3(s)[p[1] + 1]) # 0
        /\ pickInsurers(Roster, Msg(s, 3).obj.Rc,
                        LogI3(s)[p[1] + 1][1].obj.Rs)[p[2] + 1] = s }

\* C5: the R4 a server sends has exactly one share entry for each pair
\* (dealer i, index k) with slot i of I3 populated and the server selected as
\* insurer k of dealer i, and no other entry; R3 names the same pairs.
C5_SharesPerDealtPair ==
    \A s \in Servers :
        "R4" \in SentTypes(s) =>
            /\ Pairs(R4Shares(s)) = DealtPairs(s)
            /\ Len(R4Shares(s)) = Cardinality(DealtPairs(s))
            /\ Pairs(R3Resp(s)) = DealtPairs(s)
            /\ Len(R3Resp(s)) = Cardinality(DealtPairs(s))

\* An R4 with two or more shares, sent in a session whose I3 also had an
\* empty slot and a populated slot of a dealer that did not select the server.
C5_Witness ==
    \E s \in Servers :
        /\ "R4" \in SentTypes(s)
        /\ Len(R4Shares(s)) >= 2
        /\ \E j \in 1 .. NSrv : Len(LogI3(s)[j]) = 0
        /\ \E j \in 1 .. NSrv :
               /\ Len(LogI3(s)[j]) # 0
               /\ \A k \in 0 .. (thresN - 1) : << j - 1, k >> \notin DealtPairs(s)

(* -------------------------------- C6 ----------------------------------- *)

\* Entry j of the log of s is a message of type typ the server sent.
SentAt(s, j, typ) ==
    Has(s, j) /\ log[s][j].dir = "send" /\ log[s][j].typ = typ

\* C6: R1 carries the digest of the server's seed and nothing else; the seed
\* itself is a field of R2 alone; R2 follows the server's R1 and a verified
\* I2 whose seed hashes to the HRc of I1, and reveals the seed R1 committed
\* to; and the client's seed arrives only after R1 has gone out.
C6_SeedRevealedOnlyInR2 ==
    \A s \in Servers :
        /\ \A j \in 1 .. Len(log[s]) :
               /\ (log[s][j].dir = "send" /\ log[s][j].typ # "R2") =>
                      "Rs" \notin DOMAIN log[s][j].msg.obj
               /\ SentAt(s, j, "R1") =>
                      /\ DOMAIN log[s][j].msg.obj = {"HRs"}
                      /\ log[s][j].msg.obj.HRs = Sum(Rs[s])
                      /\ log[s][j].msg.obj.HRs # Rs[s]
               /\ SentAt(s, j, "R2") =>
                      /\ j = 4
                      /\ SentAt(s, 2, "R1")
                      /\ Verified(s, 3)
                      /\ Sum(Msg(s, 3).obj.Rc) = Msg(s, 1).obj.HRc
                      /\ log[s][j].msg.obj.Rs = Rs[s]
                      /\ Sum(log[s][j].msg.obj.Rs) = Msg(s, 2).obj.HRs
               /\ (log[s][j].dir = "recv" /\ log[s][j].typ = "I2") =>
                      \E n \in 1 .. (j - 1) : SentAt(s, n, "R1")

\* A server has revealed its seed in R2.
C6_Witness ==
    \E s \in Servers : SentAt(s, 4, "R2") /\ Msg(s, 4).obj.Rs = Rs[s]

(* -------------------------------- C7 ----------------------------------- *)

\* The message object carries a decrypted share.
CarriesShare(obj) ==
    \/ "Shares" \in DOMAIN obj /\ Len(obj.Shares) > 0
    \/ /\ "Resp" \in DOMAIN obj
       /\ \E j \in 1 .. Len(obj.Resp) :
              \/ "Share" \in DOMAIN obj.Resp[j]
              \/ obj.Resp[j].Resp.kind = "share"

\* The I4 server s received passed every check of round 4.
I4Passed(s) ==
    /\ Verified(s, 7)
    /\ Len(LogI4(s)) = NSrv
    /\ ~I4Differs(s)

\* C7: no message a server sends other than R4 carries a share, and a
\* message that carries one is sent only after the I4 of the session has
\* passed the consistency check.
C7_SharesPrivateUntilR4 ==
    \A s \in Servers :
        \A j \in 1 .. Len(log[s]) :
            (log[s][j].dir = "send" /\ CarriesShare(log[s][j].msg.obj)) =>
                /\ log[s][j].typ = "R4"
                /\ j > 7
                /\ I4Passed(s)

\* A server that holds shares and has sent its responses aborts on I4: the
\* shares stay private.
C7_Witness ==
    \E s \in Servers :
        /\ Len(shares[s]) > 0
        /\ SentAt(s, 6, "R3")
        /\ Len(R3Resp(s)) > 0
        /\ Has(s, 7)
        /\ Aborted(s)

(* -------------------------------- C8 ----------------------------------- *)

\* C8: every share of an R4 belongs to a dealer whose slot is populated in
\* the I4 the server accepted.
C8_SharesOnlyOfAcceptedDealers ==
    \A s \in Servers :
        "R4" \in SentTypes(s) =>
            \A j \in 1 .. Len(R4Shares(s)) :
                Len(LogI4(s)[R4Shares(s)[j].Dealer + 1]) # 0

(* -------------------------------- C9 ----------------------------------- *)

\* C9: the R4 a server sends carries every triple retained in round 3, one
\* for each response of its R3 in the same order, whichever slots of the
\* accepted I4 are populated.
C9_AllRetainedSharesRevealed ==
    \A s \in Servers :
        "R4" \in SentTypes(s) =>
            /\ R4Shares(s) = shares[s]
            /\ Len(R4Shares(s)) = Len(R3Resp(s))
            /\ \A j \in 1 .. Len(R3Resp(s)) :
                   /\ R4Shares(s)[j].Dealer = R3Resp(s)[j].Dealer
                   /\ R4Shares(s)[j].Index = R3Resp(s)[j].Index
                   /\ R4Shares(s)[j].Share.kind = "share"

\* An R4 with shares sent after an I4 all of whose slots are empty.
C9_Witness ==
    \E s \in Servers :
        /\ "R4" \in SentTypes(s)
        /\ Len(R4Shares(s)) > 0
        /\ \A j \in 1 .. NSrv : Len(LogI4(s)[j]) = 0

(* -------------------------------- C10 ---------------------------------- *)

\* Slot j of the I3 array holds an R2 whose deal does not deserialise, or
\* for which producing the response fails at an index dealt to server s.
BadDeal(s, j) ==
    /\ Len(LogI3(s)[j]) # 0
    /\ LET r2 == LogI3(s)[j][1].obj
       IN  \/ ~UnmarshalOK(r2.Deal)
           \/ \E k \in 0 .. (thresN - 1) :
                  /\ pickInsurers(Roster, Msg(s, 3).obj.Rc, r2.Rs)[k + 1] = s
                  /\ ~ProduceResponseOK(r2.Deal, k, s)

\* C10: when a populated slot of I3 holds such an R2 the session has ended
\* with an error and neither R3 nor R4 was sent, whatever the other slots
\* hold.
C10_MalformedDealAborts ==
    \A s \in Servers :
        (Has(s, 5) /\ \E j \in 1 .. Len(LogI3(s)) : BadDeal(s, j)) =>
            /\ Aborted(s)
            /\ SentTypes(s) = {"R1", "R2"}

\* A session aborted for one malformed deal although another slot of the
\* same I3 held a well-formed R2.
C10_Witness ==
    \E s \in Servers :
        /\ Has(s, 5)
        /\ err[s] = "malformed deal"
        /\ \E j \in 1 .. NSrv :
               /\ Len(LogI3(s)[j]) # 0
               /\ LogI3(s)[j][1].signer = srvpub(j - 1)
               /\ ~BadDeal(s, j)

(* -------------------------------- C11 ---------------------------------- *)

\* Slot j of the I3 array server s received is populated with a message
\* that does not verify under roster key j - 1.
BadSlotSig(s, j) ==
    /\ Len(LogI3(s)[j]) # 0
    /\ ~sigDecodeOK(srvpub(j - 1), LogI3(s)[j][1])

\* C11: when a message received from the client does not verify under the
\* client's key, or a populated slot of a verified I3 does not verify under
\* the roster key of its index, the session has ended with an error and the
\* failing message is the last one that crossed the connection: nothing was
\* sent after it.
C11_AuthFailureFatal ==
    \A s \in Servers :
        /\ \A n \in {1, 3, 5, 7} :
               (Has(s, n) /\ ~sigDecodeOK(clipub, Msg(s, n))) =>
                   /\ Aborted(s)
                   /\ err[s] = "auth"
                   /\ Len(log[s]) = n
        /\ (Verified(s, 5) /\ Len(LogI3(s)) = NSrv
               /\ \E j \in 1 .. NSrv : BadSlotSig(s, j)) =>
                   /\ Aborted(s)
                   /\ Len(log[s]) = 5

\* A session that ended with an authentication error on an I3 the client
\* signed, one slot of which carries an R2 signed by another roster server.
C11_Witness ==
    \E s \in Servers :
        /\ Verified(s, 5)
        /\ err[s] = "auth"
        /\ \E j \in 1 .. NSrv : \E i \in Servers :
               /\ i # j - 1
               /\ BadSlotSig(s, j)
               /\ sigDecodeOK(srvpub(i), LogI3(s)[j][1])

(* -------------------------------- C12 ---------------------------------- *)

\* The serve calls made on the Server value of roster index 0, each with a
\* connection of its own to a client of its own.
Calls == {0, 1}

\* The messages that came in over connection c, and those that went out.
Inbound(c) == LET IsIn(e) == e.dir = "recv" IN SelectSeq(log[c], IsIn)
Outbound(c) == LET IsOut(e) == e.dir = "send" IN SelectSeq(log[c], IsOut)

\* Message number k of the client of connection c, which follows the
\* protocol with the server of roster index 0 alone: it relays the R2 it
\* got, if the second reply is one, and accepts the same array in round 4.
PeerMsg(c, k) ==
    CASE k = 1 -> [HRc |-> Sum(Seed0)]
      [] k = 2 -> [Rc |-> Seed0]
      [] k = 3 -> [R2s |-> [j \in 1 .. NSrv |->
                     IF j = 1 /\ Outbound(c)[2].typ = "R2"
                     THEN << Outbound(c)[2].msg >> ELSE << >>]]
      [] OTHER -> Inbound(c)[3].msg.obj

\* The client of connection c sends its next message once every message it
\* sent has been answered.
PeerSend(c) ==
    /\ cpc = "peers"
    /\ c \in Calls
    /\ connUp[c]
    /\ inbox[c] = << >>
    /\ Len(Inbound(c)) = Len(Outbound(c))
    /\ Len(Inbound(c)) < 4
    /\ inbox' = [inbox EXCEPT ![c] =
                   << sigEncode(clipub, PeerMsg(c, Len(Inbound(c)) + 1)) >>]
    /\ UNCHANGED << srvvars, connUp, log, clivars >>

\* Two serve calls on one Server value.
SharedInit ==
    /\ InitSession
    /\ cpc = "peers"
    /\ selfOf = [s \in Servers |-> 0]
    /\ pc = [s \in Servers |-> IF s \in Calls THEN "serve" ELSE "idle"]

SharedNext ==
    \E s \in Servers :
        \/ Serve(s)
        \/ PeerSend(s)

SharedSpec == SharedInit /\ [][SharedNext]_vars

\* C12: every message sent over a connection was sent by the serve call
\* that was handed that connection, and the serve calls that drew a seed
\* from the random stream of one Server value are one and the same call.
C12_SessionsIndependent ==
    /\ \A c \in Servers : \A j \in 1 .. Len(log[c]) :
           log[c][j].dir = "send" => log[c][j].by = c
    /\ \A v \in Servers : \A j, k \in 1 .. Len(rand[v]) :
           rand[v][j] = rand[v][k]

(* -------------------------------- C13 ---------------------------------- *)

\* The pairs (i, k) such that dealer i, constructing the deal of the R2 it
\* sent, made server s its insurer number k.
DealerPicked(s) ==
    { p \in Servers \X (0 .. (thresN - 1)) :
        Msg(p[1], 4).obj.Deal.ins[p[2] + 1] = srvpub(s) }

\* Every server has sent its R3.
AllR3 == \A s \in Servers : SentAt(s, 6, "R3")

\* C13: with a faithful client relaying every R2, the insurers each server
\* selects in round 3 for a dealer are the ones that dealer selected in
\* round 2: no session fails, the R3 of server s answers exactly the pairs
\* (i, k) for which dealer i made s its insurer k, and once every R3 is out
\* each pair is answered by one server and no other.
C13_SelectionAgreed ==
    /\ \A s \in Servers : pc[s] # "error"
    /\ \A s \in Servers :
           SentAt(s, 6, "R3") => Pairs(R3Resp(s)) = DealerPicked(s)
    /\ AllR3 =>
           \A p \in Servers \X (0 .. (thresN - 1)) :
               \E s \in Servers :
                   /\ p \in Pairs(R3Resp(s))
                   /\ \A u \in Servers \ {s} : p \notin Pairs(R3Resp(u))

\* Every R3 is out, and some server answered the deal of another server
\* whose seed differs from the client's.
C13_Witness ==
    /\ AllR3
    /\ \E s \in Servers : \E p \in Pairs(R3Resp(s)) :
           /\ p[1] # s
           /\ Msg(p[1], 4).obj.Rs # cRc

(* -------------------------------- C14 ---------------------------------- *)

\* How far into serve a position is.
Rank(label) ==
    CASE label = "recvI1" -> 1
      [] label = "sendR1" -> 2
      [] label = "recvI2" -> 3
      [] label = "sendR2" -> 4
      [] label = "recvI3" -> 5
      [] label = "sendR3" -> 6
      [] label = "recvI4" -> 7
      [] label = "sendR4" -> 8
      [] label \in {"done", "error"} -> 9
      [] OTHER -> 0

\* The messages serve call s has received or sent.
LogBy(s) ==
    { << c, j >> \in Servers \X (1 .. (2 * Rank("done"))) :
        j <= Len(log[c]) /\ log[c][j].by = s }

\* C14: in every step, a session that has returned stays where it is, with
\* the error it returned, and receives and sends nothing more; a session
\* never moves to an earlier position of serve; a session that takes its
\* step on a failed transport returns, and a session that enters Error
\* returns an error.
C14_NoRetryErrorTerminal ==
    [][\A s \in Servers :
          /\ pc[s] \in {"done", "error"} =>
                 /\ pc'[s] = pc[s]
                 /\ err'[s] = err[s]
                 /\ LogBy(s)' = LogBy(s)
          /\ Rank(pc'[s]) >= Rank(pc[s])
          /\ (pc'[s] # pc[s] /\ Rank(pc[s]) >= 1 /\ ~connUp[s]) =>
                 pc'[s] = "error"
          /\ (pc'[s] = "error" /\ pc[s] # "error") => err'[s] # ""
      ]_vars

\* A session that returned a transport error after it had sent its R2.
C14_Witness ==
    \E s \in Servers :
        /\ Aborted(s)
        /\ err[s] = "transport"
        /\ SentAt(s, 4, "R2")

(* -------------------------------- C15 ---------------------------------- *)

\* The I3 server s received verified, has one slot for each server, and
\* each of its populated slots holds an R2 that passes every check of
\* round 3.
I3Sound(s) ==
    /\ Verified(s, 5)
    /\ Len(LogI3(s)) = NSrv
    /\ \A j \in 1 .. NSrv : ~BadSlotSig(s, j) /\ ~BadDeal(s, j)

\* The slots of the I3 of server s that are empty.
EmptySlots(s) == { j \in 1 .. NSrv : Len(LogI3(s)[j]) = 0 }

\* C15: whichever slots of such an I3 are empty, all of them included,
\* round 3 raises no error: only a failed transport ends the session before
\* I4 comes in; the responses and the shares the server holds are those of
\* the populated slots that dealt to it, none for an empty slot; and the
\* message that follows is the R3 with exactly these responses.
C15_EmptySlotTolerated ==
    \A s \in Servers :
        (Has(s, 5) /\ I3Sound(s)) =>
            /\ (Aborted(s) /\ Len(log[s]) <= 6) => err[s] = "transport"
            /\ Pairs(r3resps[s]) = DealtPairs(s)
            /\ Pairs(shares[s]) = DealtPairs(s)
            /\ \A p \in Pairs(r3resps[s]) : p[1] + 1 \notin EmptySlots(s)
            /\ Has(s, 6) =>
                   /\ SentAt(s, 6, "R3")
                   /\ R3Resp(s) = r3resps[s]

\* An R3 with a response went out for an I3 that had an empty slot.
C15_Witness ==
    \E s \in Servers :
        /\ Has(s, 5)
        /\ I3Sound(s)
        /\ SentAt(s, 6, "R3")
        /\ EmptySlots(s) # {}
        /\ R3Resp(s) # << >>

(* -------------------------------- C16 ---------------------------------- *)

\* C16: when the array of a verified I3 has not one slot for each server of
\* the roster, the session has ended with the length error of round 3, the
\* I3 is the last message that crossed the connection, and no response and
\* no share was collected from any slot; when the array of a verified I4
\* has not one slot for each server, the session has ended with the length
\* error of round 4 and no R4 was sent.
C16_WrongLengthAborts ==
    \A s \in Servers :
        /\ (Verified(s, 5) /\ Len(LogI3(s)) # NSrv) =>
               /\ Aborted(s)
               /\ err[s] = "wrong-length R2 array in I3 message"
               /\ Len(log[s]) = 5
               /\ r3resps[s] = << >>
               /\ shares[s] = << >>
        /\ (Verified(s, 7) /\ Len(LogI4(s)) # NSrv) =>
               /\ Aborted(s)
               /\ err[s] = "wrong-length R2 array in I4 message"
               /\ Len(log[s]) = 7
               /\ "R4" \notin SentTypes(s)

\* A session that ended on an I3 with one slot too many, whose first slots
\* hold R2 messages that verify under the roster keys.
C16_Witness ==
    \E s \in Servers :
        /\ Verified(s, 5)
        /\ Len(LogI3(s)) = NSrv + 1
        /\ \A j \in 1 .. NSrv : ~BadSlotSig(s, j)
        /\ Aborted(s)

(* -------------------------------- C17 ---------------------------------- *)

\* What serve call u holds, and what waits for it and crossed its
\* connection.
SessionState(u) ==
    << pc[u], err[u], i1[u], i2[u], i3[u], i4[u], Rs[u], shares[u],
       r3resps[u], inbox[u], log[u], connUp[u] >>

\* Serve call s handles the R2 messages of an I3 in this step.
HandlesI3(s) == pc[s] = "recvI3" /\ pc'[s] # "recvI3"

\* C17: no step changes the index a server runs under; the roster, the
\* keys of the servers and the key of the client are fixed values no step
\* can assign. The step in which a server handles the R2 messages of the
\* other servers changes the responses and shares of its own session and
\* nothing else it holds: not the messages and seed of the earlier rounds,
\* not the fields of the Server value, and nothing of any other session.
C17_ServeTouchesOnlyItsSession ==
    [][/\ selfOf' = selfOf
       /\ \A s \in Servers :
              HandlesI3(s) =>
                  /\ \A u \in Servers \ {s} : SessionState(u)' = SessionState(u)
                  /\ i1' = i1 /\ i2' = i2 /\ i4' = i4 /\ Rs' = Rs
                  /\ conn' = conn /\ rand' = rand
      ]_vars

\* A server holds shares dealt by another server while that server's own
\* session holds the responses and shares it collected itself.
C17_Witness ==
    \E s \in Servers : \E u \in Servers \ {s} :
        /\ \E j \in 1 .. Len(shares[s]) : shares[s][j].Dealer = u
        /\ shares[u] # << >>
        /\ shares[u] # shares[s]
        /\ pc[s] # "error" /\ pc[u] # "error"

(* -------------------------------- C18 ---------------------------------- *)

\* C18: when a server has sent R2, the digest of the seed in it is the HRs
\* of the R1 it sent before; the I2 it answers verified under the client's
\* key and its seed hashes to the HRc of I1; and the deal in the R2 is the
\* server's own, split among the thresN insurers selected from the roster
\* with that client seed and the seed the R2 reveals, in that order.
C18_RevealMatchesCommitment ==
    \A s \in Servers :
        SentAt(s, 4, "R2") =>
            LET r2 == Msg(s, 4).obj
                Rc == Msg(s, 3).obj.Rc
            IN  /\ SentAt(s, 2, "R1")
                /\ Sum(r2.Rs) = Msg(s, 2).obj.HRs
                /\ Verified(s, 3)
                /\ Sum(Rc) = Msg(s, 1).obj.HRc
                /\ r2.Deal.dealer = selfOf[s]
                /\ Len(r2.Deal.ins) = thresN
                /\ \A k \in 1 .. thresN :
                       r2.Deal.ins[k] =
                           srvpub(pickInsurers(Roster, Rc, r2.Rs)[k])

\* A server sent R2 in a session in which its seed and the client's differ.
C18_Witness ==
    \E s \in Servers :
        /\ SentAt(s, 4, "R2")
        /\ Msg(s, 4).obj.Rs # Msg(s, 3).obj.Rc
        /\ Msg(s, 4).obj.Deal.ins # << >>

(* -------------------------------- C19 ---------------------------------- *)

\* The entries of a list of R3Resp or R4Share come by dealer index, none
\* before one of a smaller dealer, and within a dealer by growing share
\* index.
Sorted(list) ==
    \A j, k \in 1 .. Len(list) :
        j < k =>
            \/ list[j].Dealer < list[k].Dealer
            \/ list[j].Dealer = list[k].Dealer /\ list[j].Index < list[k].Index

\* Two lists name the same (dealer, index) pair at every position.
SamePairs(resps, shrs) ==
    /\ Len(resps) = Len(shrs)
    /\ \A j \in 1 .. Len(resps) :
           /\ resps[j].Dealer = shrs[j].Dealer
           /\ resps[j].Index = shrs[j].Index

\* C19: the responses and the shares a session holds correspond entry by
\* entry and are in order; so do the response list of the R3 and the share
\* list of the R4 a server has sent.
C19_ListsCorrespond ==
    \A s \in Servers :
        /\ SamePairs(r3resps[s], shares[s])
        /\ Sorted(r3resps[s])
        /\ SentAt(s, 8, "R4") =>
               /\ SentAt(s, 6, "R3")
               /\ SamePairs(R3Resp(s), R4Shares(s))
               /\ Sorted(R3Resp(s))
               /\ Sorted(R4Shares(s))

\* An R4 with the shares of three dealers.
C19_Witness ==
    \E s \in Servers :
        /\ SentAt(s, 8, "R4")
        /\ Len(R4Shares(s)) >= 3
        /\ R4Shares(s)[1].Dealer # R4Shares(s)[2].Dealer

(* -------------------------------- C20 ---------------------------------- *)

\* The I4 of server s passed its validation: the server is about to send R4
\* or has sent it.
I4Accepted(s) == Has(s, 7) /\ (pc[s] = "sendR4" \/ SentAt(s, 8, "R4"))

\* C20: every populated slot of an I4 a server accepted holds the payload
\* of the same slot of the I3 of the session, which in round 3 verified
\* under the roster key of the slot and whose deal deserialised: the I3 was
\* handled without error and R3 followed it.
C20_AcceptedI4WasAuthenticated ==
    \A s \in Servers :
        I4Accepted(s) =>
            /\ SentAt(s, 6, "R3")
            /\ \A j \in 1 .. NSrv :
                   Len(LogI4(s)[j]) # 0 =>
                       /\ LogI4(s)[j] = LogI3(s)[j]
                       /\ sigDecodeOK(srvpub(j - 1), LogI4(s)[j][1])
                       /\ UnmarshalOK(LogI4(s)[j][1].obj.Deal)

\* An R4 went out for an I4 that kept one R2 of the I3 and dropped another.
C20_Witness ==
    \E s \in Servers :
        /\ SentAt(s, 8, "R4")
        /\ \E j, k \in 1 .. NSrv :
               /\ Len(LogI4(s)[j]) # 0
               /\ Len(LogI4(s)[k]) = 0
               /\ Len(LogI3(s)[k]) # 0

=============================================================================
